---- MODULE Spec2Model ----
(***************************************************************************)
(* Model of the three exercise solutions of the repository:                *)
(*   src/leetcode/01/a.rs  two_sum        (three implementations)          *)
(*   src/leetcode/13/a.rs  value, roman_to_int                             *)
(*   src/leetcode/9/a.rs   is_palindrome  (arithmetic and string version)  *)
(* Every function is run one loop iteration per step.  i32 arithmetic is   *)
(* kept at its width: an operation whose result leaves the i32 range       *)
(* panics when the build has overflow checks on (debug profile) and wraps  *)
(* modulo 2^32 when it has them off (release profile).                     *)
(***************************************************************************)
EXTENDS Integers, Sequences, FiniteSets, TLC

VARIABLES
    overflowChecks, \* build profile: TRUE = overflow checks on (debug)
    \* two_sum
    impl,           \* which of the three impl blocks of 01/a.rs runs
    nums, target,   \* arguments
    i,              \* loop index, 0-based
    hash,           \* HashMap<i32, usize> as a function on its key set
    result,         \* returned Vec<i32>
    tsPc,           \* "loop" | "returned" | "panicked"
    \* roman_to_int
    s,              \* argument: sequence of chars (Unicode code points)
    encoded,        \* n when s was produced by the encoder from n, else 0
    ci,             \* index of the current char, 0-based
    num,            \* running total
    romPc,          \* "loop" | "returned" | "panicked"
    \* is_palindrome
    x,              \* argument
    n, tmp,         \* locals of the arithmetic version
    palResult,      \* value returned by the arithmetic version
    palPc,          \* "start" | "loop" | "returned" | "panicked"
    strResult,      \* value returned by the string version
    strPc           \* "start" | "returned"

tsVars  == <<impl, nums, target, i, hash, result, tsPc>>
romVars == <<s, encoded, ci, num, romPc>>
palVars == <<x, n, tmp, palResult, palPc, strResult, strPc>>
vars    == <<overflowChecks, tsVars, romVars, palVars>>

----------------------------------------------------------------------------
(* Bounds of the model *)

MaxLen    == 3      \* longest nums
SmallMax  == 1      \* nums and target range over -SmallMax..SmallMax and the i32 extremes
MaxStrLen == 3      \* longest arbitrary string
MaxRoman  == 3999   \* numerals 1..MaxRoman are produced by the encoder
PalSmall  == 130    \* x ranges over -PalSmall..PalSmall ...
PalNear   == 12     \* ... and PalNear values next to each large anchor

----------------------------------------------------------------------------
(* i32 arithmetic *)

MaxInt == 2147483647
MinInt == -MaxInt - 1

\* a + b leaves the i32 range
AddOverflows(a, b) ==
    \/ b > 0 /\ a > MaxInt - b
    \/ b < 0 /\ a < MinInt - b

\* a - b leaves the i32 range
SubOverflows(a, b) ==
    \/ b > 0 /\ a < MinInt + b
    \/ b < 0 /\ a > MaxInt + b

\* a + b modulo 2^32, as a signed value
wrapping_add(a, b) ==
    IF b > 0 /\ a > MaxInt - b THEN ((a - MaxInt) + (b + MinInt)) - 1
    ELSE IF b < 0 /\ a < MinInt - b THEN ((a - MinInt) + (b + MaxInt)) + 1
    ELSE a + b

\* a - b modulo 2^32, as a signed value
wrapping_sub(a, b) ==
    IF b > 0 /\ a < MinInt + b THEN ((a - MinInt) + (MaxInt - b)) + 1
    ELSE IF b < 0 /\ a > MaxInt + b THEN ((a - MaxInt) + (MinInt - b)) - 1
    ELSE a - b

\* a * b leaves the i32 range (b a small positive constant)
MulOverflows(a, b) ==
    \/ a > MaxInt \div b
    \/ a < (MinInt \div b) + (IF MinInt % b = 0 THEN 0 ELSE 1)

\* the two 16-bit halves of a's 32-bit two's complement pattern
Halves(a) ==
    IF a >= 0 THEN <<a \div 65536, a % 65536>>
    ELSE <<((a - MinInt) \div 65536) + 32768, (a - MinInt) % 65536>>

\* the signed value of the pattern hi:lo
FromHalves(hi, lo) ==
    IF hi >= 32768 THEN (((hi - 32768) * 65536) + lo) + MinInt
    ELSE (hi * 65536) + lo

\* a * b modulo 2^32, as a signed value (0 < b < 2^15)
wrapping_mul(a, b) ==
    IF ~MulOverflows(a, b) THEN a * b
    ELSE LET h  == Halves(a)
             lo == h[2] * b
             hi == (h[1] * b) + (lo \div 65536)
         IN  FromHalves(hi % 65536, lo % 65536)

\* quotient and remainder of Rust's / and % (truncated towards zero), b > 0
RustDiv(a, b) == IF a >= 0 \/ a % b = 0 THEN a \div b ELSE (a \div b) + 1
RustRem(a, b) == IF a >= 0 \/ a % b = 0 THEN a % b ELSE (a % b) - b

----------------------------------------------------------------------------
(* two_sum, src/leetcode/01/a.rs *)

\* a map whose insert keeps the value of a present key
HashInsertKeepFirst(h, k, v) ==
    IF k \in DOMAIN h THEN h
    ELSE [key \in (DOMAIN h) \cup {k} |-> IF key = k THEN v ELSE h[key]]

\* hash.insert(k, v): a present key is overwritten
HashInsert(h, k, v) ==
    [key \in (DOMAIN h) \cup {k} |-> IF key = k THEN v ELSE h[key]]

\* One pass of the loop of the first impl block (lines 6-13).
two_sum_1 ==
    /\ tsPc = "loop" /\ impl = 1
    /\ IF i < Len(nums)
       THEN LET v == nums[i + 1] IN
            IF SubOverflows(target, v) /\ overflowChecks
            THEN /\ tsPc' = "panicked"
                 /\ UNCHANGED <<i, hash, result>>
            ELSE LET complement == wrapping_sub(target, v) IN
                 IF ~(complement \in DOMAIN hash)
                 THEN /\ hash' = HashInsert(hash, v, i)
                      /\ i' = i + 1
                      /\ UNCHANGED <<result, tsPc>>
                 ELSE /\ result' = <<hash[complement], i>>
                      /\ tsPc' = "returned"
                      /\ UNCHANGED <<i, hash>>
       ELSE /\ result' = <<>>
            /\ tsPc' = "returned"
            /\ UNCHANGED <<i, hash>>
    /\ UNCHANGED <<overflowChecks, impl, nums, target, romVars, palVars>>

\* One pass of the loop of the second impl block (lines 22-31).
two_sum_2 ==
    /\ tsPc = "loop" /\ impl = 2
    /\ IF i < Len(nums)
       THEN LET v == nums[i + 1] IN
            IF SubOverflows(target, v) /\ overflowChecks
            THEN /\ tsPc' = "panicked"
                 /\ UNCHANGED <<i, hash, result>>
            ELSE LET key == wrapping_sub(target, v) IN
                 IF key \in DOMAIN hash
                 THEN /\ result' = <<hash[key], i>>
                      /\ tsPc' = "returned"
                      /\ UNCHANGED <<i, hash>>
                 ELSE /\ hash' = HashInsert(hash, v, i)
                      /\ i' = i + 1
                      /\ UNCHANGED <<result, tsPc>>
       ELSE /\ result' = <<>>
            /\ tsPc' = "returned"
            /\ UNCHANGED <<i, hash>>
    /\ UNCHANGED <<overflowChecks, impl, nums, target, romVars, palVars>>

\* One pass of the loop of the third impl block (lines 40-47).
two_sum_3 ==
    /\ tsPc = "loop" /\ impl = 3
    /\ IF i < Len(nums)
       THEN LET v == nums[i + 1] IN
            IF SubOverflows(target, v) /\ overflowChecks
            THEN /\ tsPc' = "panicked"
                 /\ UNCHANGED <<i, hash, result>>
            ELSE LET complement == wrapping_sub(target, v) IN
                 IF complement \in DOMAIN hash
                 THEN /\ result' = <<hash[complement], i>>
                      /\ tsPc' = "returned"
                      /\ UNCHANGED <<i, hash>>
                 ELSE /\ hash' = HashInsert(hash, v, i)
                      /\ i' = i + 1
                      /\ UNCHANGED <<result, tsPc>>
       ELSE /\ result' = <<>>
            /\ tsPc' = "returned"
            /\ UNCHANGED <<i, hash>>
    /\ UNCHANGED <<overflowChecks, impl, nums, target, romVars, palVars>>

----------------------------------------------------------------------------
(* roman_to_int, src/leetcode/13/a.rs *)

\* chars are Unicode code points: I V X L C D M
RomanSymbols == {73, 86, 88, 76, 67, 68, 77}

\* a symbol table with the values of L and D exchanged
valueSwappedLD(c) ==
    CASE c = 73 -> 1
      [] c = 86 -> 5
      [] c = 88 -> 10
      [] c = 76 -> 500
      [] c = 67 -> 100
      [] c = 68 -> 50
      [] c = 77 -> 1000
      [] OTHER  -> 0

\* Solution::value (lines 2-13)
value(c) ==
    CASE c = 73 -> 1
      [] c = 86 -> 5
      [] c = 88 -> 10
      [] c = 76 -> 50
      [] c = 67 -> 100
      [] c = 68 -> 500
      [] c = 77 -> 1000
      [] OTHER  -> 0

\* the UTF-8 encoding of one char (code points below 2^16)
Utf8(c) ==
    IF c < 128 THEN <<c>>
    ELSE IF c < 2048 THEN <<192 + (c \div 64), 128 + (c % 64)>>
    ELSE <<224 + (c \div 4096), 128 + ((c \div 64) % 64), 128 + (c % 64)>>

\* s.as_bytes(): the UTF-8 bytes of the string; s.len() is their number
RECURSIVE as_bytes(_)
as_bytes(str) ==
    IF str = <<>> THEN <<>> ELSE Utf8(Head(str)) \o as_bytes(Tail(str))

\* `b as char` for a byte b: the char with code point b
ByteAsChar(b) == b

\* the comparison of line 17 with >= in place of >
NextIsGreaterOrEqual(bytes, idx, ch) == value(ByteAsChar(bytes[idx + 2])) >= value(ch)

\* the comparison of line 17, for the char ch at char index idx (0-based):
\* value(s.as_bytes()[idx+1] as char) > value(ch)
NextIsGreater(bytes, idx, ch) == value(ByteAsChar(bytes[idx + 2])) > value(ch)

\* One pass of the loop of roman_to_int (lines 16-23).
roman_to_int ==
    /\ romPc = "loop"
    /\ IF ci < Len(s)
       THEN LET ch    == s[ci + 1]
                bytes == as_bytes(s)
            IN
            IF (ci + 1) # Len(bytes) /\ (ci + 1) > Len(bytes)
            THEN \* index out of bounds
                 /\ romPc' = "panicked"
                 /\ UNCHANGED <<ci, num>>
            ELSE IF (ci + 1) # Len(bytes) /\ NextIsGreater(bytes, ci, ch)
            THEN IF SubOverflows(num, value(ch)) /\ overflowChecks
                 THEN /\ romPc' = "panicked"
                      /\ UNCHANGED <<ci, num>>
                 ELSE /\ num' = wrapping_sub(num, value(ch))
                      /\ ci' = ci + 1
                      /\ UNCHANGED romPc
            ELSE IF AddOverflows(num, value(ch)) /\ overflowChecks
                 THEN /\ romPc' = "panicked"
                      /\ UNCHANGED <<ci, num>>
                 ELSE /\ num' = wrapping_add(num, value(ch))
                      /\ ci' = ci + 1
                      /\ UNCHANGED romPc
       ELSE /\ romPc' = "returned"
            /\ UNCHANGED <<ci, num>>
    /\ UNCHANGED <<overflowChecks, s, encoded, tsVars, palVars>>

----------------------------------------------------------------------------
(* is_palindrome, src/leetcode/9/a.rs *)

\* the early return of line 4: n < 0 || (n != 0 && n % 10 == 0)
EarlyFalse(m) == m < 0 \/ (m # 0 /\ RustRem(m, 10) = 0)

\* Entry of the arithmetic version (lines 3-7).
is_palindrome_entry ==
    /\ palPc = "start"
    /\ n' = x
    /\ IF EarlyFalse(x)
       THEN /\ palResult' = FALSE
            /\ palPc' = "returned"
            /\ UNCHANGED tmp
       ELSE /\ tmp' = 0
            /\ palPc' = "loop"
            /\ UNCHANGED palResult
    /\ UNCHANGED <<overflowChecks, x, strResult, strPc, tsVars, romVars>>

\* One pass of the while loop of the arithmetic version (lines 8-12).
is_palindrome_loop ==
    /\ palPc = "loop"
    /\ IF n > 0
       THEN IF MulOverflows(tmp, 10) /\ overflowChecks
            THEN /\ palPc' = "panicked"
                 /\ UNCHANGED <<n, tmp, palResult>>
            ELSE LET prod == wrapping_mul(tmp, 10)
                     d    == RustRem(n, 10)
                 IN
                 IF AddOverflows(prod, d) /\ overflowChecks
                 THEN /\ palPc' = "panicked"
                      /\ UNCHANGED <<n, tmp, palResult>>
                 ELSE /\ tmp' = wrapping_add(prod, d)
                      /\ n' = RustDiv(n, 10)
                      /\ UNCHANGED <<palResult, palPc>>
       ELSE /\ palResult' = (tmp = x)
            /\ palPc' = "returned"
            /\ UNCHANGED <<n, tmp>>
    /\ UNCHANGED <<overflowChecks, x, strResult, strPc, tsVars, romVars>>

DigitChar(d) == <<"0", "1", "2", "3", "4", "5", "6", "7", "8", "9">>[d + 1]

\* the decimal digits of m >= 0, most significant first
RECURSIVE Digits(_)
Digits(m) ==
    IF m < 10 THEN <<DigitChar(m)>> ELSE Append(Digits(m \div 10), DigitChar(m % 10))

\* x.to_string(): a '-' and the digits of |x| when x < 0, else the digits
to_string(m) ==
    IF m >= 0 THEN Digits(m)
    ELSE LET q == RustDiv(m, 10)
             r == RustRem(m, 10)
         IN  <<"-">> \o (IF q = 0 THEN <<>> ELSE Digits(-q)) \o <<DigitChar(-r)>>

\* chars().rev()
Reverse(str) == [k \in 1..Len(str) |-> str[(Len(str) + 1) - k]]

\* The string version (lines 19-21).
is_palindrome_string ==
    /\ strPc = "start"
    /\ strResult' = (Reverse(to_string(x)) = to_string(x))
    /\ strPc' = "returned"
    /\ UNCHANGED <<overflowChecks, x, n, tmp, palResult, palPc, tsVars, romVars>>

----------------------------------------------------------------------------
(* Inputs and specifications *)

\* values of nums and target: small ones and the extremes of i32
I32Samples == (-SmallMax..SmallMax) \cup {MinInt, MaxInt}

SeqsUpTo(S, k) == UNION {[1..m -> S] : m \in 0..k}

\* chars of the arbitrary strings: the seven symbols, 'A' (one byte),
\* U+00E9 (two bytes) and U+20AC (three bytes)
Alphabet == RomanSymbols \cup {65, 233, 8364}

\* the standard encoder of the round trip: greedy over the seven symbols and
\* the six subtractive pairs
EncoderTable ==
    << <<1000, <<77>>>>, <<900, <<67, 77>>>>, <<500, <<68>>>>, <<400, <<67, 68>>>>,
       <<100, <<67>>>>,  <<90, <<88, 67>>>>,  <<50, <<76>>>>,  <<40, <<88, 76>>>>,
       <<10, <<88>>>>,   <<9, <<73, 88>>>>,   <<5, <<86>>>>,   <<4, <<73, 86>>>>,
       <<1, <<73>>>> >>

RECURSIVE EncodeFrom(_, _)
EncodeFrom(m, k) ==
    IF m = 0 THEN <<>>
    ELSE IF EncoderTable[k][1] <= m
         THEN EncoderTable[k][2] \o EncodeFrom(m - EncoderTable[k][1], k)
         ELSE EncodeFrom(m, k + 1)

Encode(m) == EncodeFrom(m, 1)

\* malformed numerals named by the specification: IIV, VX, IIII, IVXLCDM
Malformed ==
    { <<73, 73, 86>>, <<86, 88>>, <<73, 73, 73, 73>>, <<73, 86, 88, 76, 67, 68, 77>> }

\* arguments of is_palindrome: small values, and values next to the i32
\* extremes, to 10^9 and to the largest i32 palindrome
PalInputs ==
    (-PalSmall..PalSmall)
    \cup {MinInt + k : k \in 0..PalNear}
    \cup {MaxInt - k : k \in 0..PalNear}
    \cup {1000000000 + k : k \in 0..PalNear}
    \cup {2147447412 - k : k \in 0..PalNear}

TwoSumIdle ==
    /\ impl = 0 /\ nums = <<>> /\ target = 0 /\ i = 0
    /\ hash = <<>> /\ result = <<>> /\ tsPc = "idle"

RomanIdle ==
    /\ s = <<>> /\ encoded = 0 /\ ci = 0 /\ num = 0 /\ romPc = "idle"

PalIdle ==
    /\ x = 0 /\ n = 0 /\ tmp = 0 /\ palResult = FALSE /\ palPc = "idle"
    /\ strResult = FALSE /\ strPc = "idle"

InitTwoSum ==
    /\ overflowChecks \in BOOLEAN
    /\ impl \in 1..3
    /\ nums \in SeqsUpTo(I32Samples, MaxLen)
    /\ target \in I32Samples
    /\ i = 0 /\ hash = <<>> /\ result = <<>> /\ tsPc = "loop"
    /\ RomanIdle /\ PalIdle

InitRoman ==
    /\ overflowChecks \in BOOLEAN
    /\ \/ /\ encoded = 0
          /\ s \in SeqsUpTo(Alphabet, MaxStrLen) \cup Malformed
       \/ /\ encoded \in 1..MaxRoman
          /\ s = Encode(encoded)
    /\ ci = 0 /\ num = 0 /\ romPc = "loop"
    /\ TwoSumIdle /\ PalIdle

InitPal ==
    /\ overflowChecks \in BOOLEAN
    /\ x \in PalInputs
    /\ n = 0 /\ tmp = 0 /\ palResult = FALSE /\ palPc = "start"
    /\ strResult = FALSE /\ strPc = "start"
    /\ TwoSumIdle /\ RomanIdle

NextTwoSum == two_sum_1 \/ two_sum_2 \/ two_sum_3
NextRoman  == roman_to_int
NextPal    == is_palindrome_entry \/ is_palindrome_loop \/ is_palindrome_string

SpecTwoSum == InitTwoSum /\ [][NextTwoSum]_vars
SpecRoman  == InitRoman /\ [][NextRoman]_vars
SpecPal    == InitPal /\ [][NextPal]_vars

Init == InitTwoSum \/ InitRoman \/ InitPal
Next == NextTwoSum \/ NextRoman \/ NextPal
Spec == Init /\ [][Next]_vars

----------------------------------------------------------------------------
(* Properties of two_sum *)

\* u + v = t over the integers (a sum outside the i32 range equals no i32)
MathSumIs(u, v, t) == ~AddOverflows(u, v) /\ u + v = t

Positions == 0..(Len(nums) - 1)

ExistsPair ==
    \E p, q \in Positions : p # q /\ MathSumIs(nums[p + 1], nums[q + 1], target)

TwoSumEnded == tsPc \in {"returned", "panicked"}
ReturnedPair == tsPc = "returned" /\ Len(result) = 2

\* the complement the code computes at position b
ComplementAt(b) == wrapping_sub(target, nums[b + 1])

\* C1: when some i # j have nums[i] + nums[j] = target, two_sum returns two
\* distinct in-bounds indices whose values sum to target; when no such pair
\* exists it returns the empty result.
C1_TwoSumContract ==
    TwoSumEnded =>
        /\ tsPc = "returned"
        /\ IF ExistsPair
           THEN /\ Len(result) = 2
                /\ result[1] \in Positions /\ result[2] \in Positions
                /\ result[1] # result[2]
                /\ MathSumIs(nums[result[1] + 1], nums[result[2] + 1], target)
           ELSE result = <<>>

\* C7 as stated: in a returned pair (a, b), a is the first (lowest-index)
\* occurrence in nums of the complement of nums[b], and a # b.
C7_FirstOccurrence ==
    ReturnedPair =>
        LET a == result[1]
            b == result[2]
        IN  /\ a # b
            /\ nums[a + 1] = ComplementAt(b)
            /\ \A k \in 0..(a - 1) : nums[k + 1] # ComplementAt(b)

\* C7 amended: in a returned pair (a, b), a is the last (highest-index)
\* occurrence before position b of the complement of nums[b], the complement
\* being the one the code computes in i32 arithmetic; a < b, so a # b.
C7_LastOccurrenceBefore ==
    ReturnedPair =>
        LET a == result[1]
            b == result[2]
        IN  /\ a \in Positions /\ b \in Positions
            /\ a < b
            /\ nums[a + 1] = ComplementAt(b)
            /\ \A k \in (a + 1)..(b - 1) : nums[k + 1] # ComplementAt(b)

\* [1, 1, 0] with target 1: the complement 1 of the 0 occurs at 0 and at 1,
\* and the pair returned is (1, 2)
C7_Witness ==
    /\ tsPc = "returned"
    /\ nums = <<1, 1, 0>> /\ target = 1
    /\ result = <<1, 2>>

\* position q completes a pair: some earlier position holds target - nums[q]
Completes(q) == \E p \in 0..(q - 1) : MathSumIs(nums[p + 1], nums[q + 1], target)

\* C8: in a returned pair (a, b), a < b, position b completes a pair with an
\* earlier position, and no position before b completes one.
C8_FirstCompletedPair ==
    ReturnedPair =>
        LET a == result[1]
            b == result[2]
        IN  /\ a < b
            /\ b \in Positions
            /\ Completes(b)
            /\ \A q \in 0..(b - 1) : ~Completes(q)

\* C10: two_sum has no error path: over the whole i32 range of nums and
\* target it never fails, it ends by returning a pair or the empty result.
C10_NoErrorPath ==
    /\ tsPc # "panicked"
    /\ tsPc = "returned" => Len(result) \in {0, 2}

----------------------------------------------------------------------------
(* Properties of roman_to_int *)

RomanEnded == romPc \in {"returned", "panicked"}

\* C2: for every n in 1..MaxRoman, roman_to_int of the encoder's numeral of n
\* returns n.
C2_RoundTrip ==
    (RomanEnded /\ encoded >= 1) => (romPc = "returned" /\ num = encoded)

\* MCMXCIV decodes to 1994
C2_Witness ==
    /\ romPc = "returned"
    /\ encoded = 1994
    /\ s = <<77, 67, 77, 88, 67, 73, 86>>
    /\ num = 1994

OnlyRomanSymbols == \A k \in 1..Len(s) : s[k] \in RomanSymbols

\* C6: for every string over I V X L C D M, well-formed or not, roman_to_int
\* returns a total that is not below 0.
C6_NonNegative ==
    (RomanEnded /\ OnlyRomanSymbols) => (romPc = "returned" /\ num >= 0)

\* the malformed IIV is decoded, to 5
C6_Witness ==
    /\ romPc = "returned"
    /\ s = <<73, 73, 86>>
    /\ num = 5

\* the value the rule gives the chars of str from char index k (1-based) on:
\* a char is subtracted when a next char exists and has a strictly greater
\* value, and added otherwise
RECURSIVE RuleValueFrom(_, _)
RuleValueFrom(str, k) ==
    IF k > Len(str) THEN 0
    ELSE (IF k < Len(str) /\ value(str[k + 1]) > value(str[k])
          THEN -value(str[k]) ELSE value(str[k]))
         + RuleValueFrom(str, k + 1)

\* C9: for every string, chars outside I V X L C D M and multi-byte chars
\* included, roman_to_int returns without error the value of the rule.
C9_RuleValue ==
    RomanEnded => (romPc = "returned" /\ num = RuleValueFrom(s, 1))

----------------------------------------------------------------------------
(* Properties of is_palindrome *)

PalEnded == palPc \in {"returned", "panicked"}

\* x >= 0 and the decimal digits of x read the same in both directions
DigitPalindrome(m) == m >= 0 /\ Digits(m) = Reverse(Digits(m))

\* C3: for every i32 x the arithmetic is_palindrome returns true exactly when
\* x >= 0 and the digit sequence of x equals its reversal.
C3_ArithmeticContract ==
    PalEnded => (palPc = "returned" /\ palResult = DigitPalindrome(x))

\* C4: for x in [0, 2^31 - 1] no pass of the reversal loop overflows: before
\* every pass, tmp * 10 + n % 10 lies in the i32 range.
C4_NoOverflow ==
    (palPc = "loop" /\ x >= 0 /\ n > 0) =>
        /\ ~MulOverflows(tmp, 10)
        /\ ~AddOverflows(tmp * 10, RustRem(n, 10))

\* C5: the arithmetic and the string version return the same boolean for
\* every i32 x.
C5_SameResult ==
    (PalEnded /\ strPc = "returned") => (palPc = "returned" /\ palResult = strResult)

====
